---- MODULE Spec2Model ----
(***************************************************************************)
(* The todo API of src/main.py: list_tasks, create_task, update_task,      *)
(* toggle_task and delete_task over the "task" collection of a document    *)
(* store.  Every store round trip of a handler is one atomic step; the     *)
(* handler's local computation before a round trip (the db check, the      *)
(* ObjectId parse, building the $set document) belongs to the step of that *)
(* round trip.  Requests run on threads, so the steps of different         *)
(* requests interleave.  The threads are interchangeable: th is the bag of *)
(* the requests in flight, each with its locals.                           *)
(* clock is the latest reading of the wall clock; the clock never goes     *)
(* backwards, and two readings may be equal.  A handler reads the clock    *)
(* some time before the write that stores the reading, and other requests  *)
(* may read it in between: the reading a write stores is any value from    *)
(* the earliest moment the handler can have read it (since) onwards.       *)
(* nins counts the inserts, deleted is the set of identifiers whose delete *)
(* succeeded, last is the response that left last.                         *)
(***************************************************************************)
EXTENDS Integers, Sequences, FiniteSets, Bags, TLC

VARIABLES db, store, clock, nins, deleted, th, last

vars == <<db, store, clock, nins, deleted, th, last>>

(* ------------------------------ bounds -------------------------------- *)
\* number of request threads that may be in flight together
NumThreads == 2
\* number of tasks ever created in one behaviour of one client
MaxTasks == 2
\* number of tasks ever created in one behaviour with requests interleaved
ConcTasks == 1
\* last reading of the clock
MaxClock == 2
\* length of the hexadecimal text of an ObjectId (24 in bson)
OidLen == 1

(* --------------------------- typed values ----------------------------- *)
\* Python / BSON values carry their type, as they do in the store.
NoneV == <<"None">>
BoolV(b) == <<"bool", b>>
StrV(s) == <<"str", s>>
DateV(t) == <<"datetime", t>>
OidV(s) == <<"ObjectId", s>>

\* datetime.min, the sort key of a document without created_at
DatetimeMin == 0

\* the reading of the clock when the service starts
FirstReading == DatetimeMin + 1

\* the clock after a request has used the reading now, which may date from
\* before the latest reading of another request
Later(c, now) == IF now > c THEN now ELSE c

\* bool(v) of Python for the values a completed field can hold
bool(v) == IF v[1] = "bool" THEN v[2] ELSE FALSE

\* hasattr(v, "isoformat")
hasattr_isoformat(v) == v[1] = "datetime"

\* v.isoformat(): the text of a datetime
isoformat(v) == StrV(<<"T", ToString(v[2])>>)

(* ---------------------------- identifiers ----------------------------- *)
\* the hex digits of the model, in the case str(oid) prints them
HexDigits == <<"a", "b", "c">>

\* characters a client may put in a task_id: lower-case hex digits, an
\* upper-case hex digit and a character that is no hex digit
Alphabet == {"a", "B", "c", "g"}
HexChars == {"a", "B", "c"}
lower(ch) == IF ch = "B" THEN "b" ELSE ch

\* the texts a client sends as task_id: every text of the right length, and
\* hex texts one character short and one character long
TaskIdStrings ==
    [1..OidLen -> Alphabet] \cup {[i \in 1..n |-> "a"] : n \in {OidLen - 1, OidLen + 1}}

\* (a parse that checks the length alone)
ObjectIdValid_LengthOnly(task_id) == Len(task_id) = OidLen

\* ObjectId(task_id) raises unless task_id is OidLen hex digits
ObjectIdValid(task_id) ==
    /\ Len(task_id) = OidLen
    /\ \A i \in 1..Len(task_id) : task_id[i] \in HexChars

\* ObjectId(task_id): the identifier, case folded
ObjectId(task_id) == OidV([i \in 1..Len(task_id) |-> lower(task_id[i])])

\* str(oid)
str(oid) == StrV(oid[2])

\* ObjectId(new_id) of a text that str(oid) produced
ObjectIdOfStr(s) == OidV(s[2])

RECURSIVE Pow(_, _)
Pow(b, n) == IF n = 0 THEN 1 ELSE b * Pow(b, n - 1)

\* the identifier the n-th insert generates (n from 0): identifiers are unique
GenOid(n) ==
    OidV([i \in 1..OidLen |->
             HexDigits[((n \div Pow(Len(HexDigits), OidLen - i)) % Len(HexDigits)) + 1]])

(* ------------------------------ payloads ------------------------------ *)
\* titles a client sends (texts are sequences of characters): title: str
\* takes every text, the empty one too
Titles == {<<"X">>, <<>>}

\* TaskCreate: title: str
TaskCreate == {[title |-> StrV(s)] : s \in Titles}

\* TaskUpdate: title: Optional[str] = None, completed: Optional[bool] = None;
\* model_dump(exclude_unset=True) keeps exactly the fields the client sent
TitleVals == {StrV(s) : s \in Titles} \cup {NoneV}
CompletedVals == {BoolV(b) : b \in BOOLEAN} \cup {NoneV}
FieldVals(k) == IF k = "title" THEN TitleVals ELSE CompletedVals
TaskUpdate ==
    UNION {{p \in [S -> TitleVals \cup CompletedVals] : \A k \in S : p[k] \in FieldVals(k)} :
              S \in SUBSET {"title", "completed"}}

(* ------------------------------ the store ----------------------------- *)
\* (the check of the store handle forgotten)
db_is_None_Never == FALSE

\* db is None
db_is_None == ~db

\* {**a, **b}: the fields of b over those of a
Merge(a, b) ==
    [k \in DOMAIN a \cup DOMAIN b |-> IF k \in DOMAIN b THEN b[k] ELSE a[k]]

Index(s, oid) == {i \in 1..Len(s) : s[i]["_id"] = oid}

\* collection.find_one({"_id": oid}): <<>> for None, <<doc>> for a document
find_one(s, oid) ==
    IF Index(s, oid) = {} THEN <<>> ELSE <<s[CHOOSE i \in Index(s, oid) : TRUE]>>

\* (an update that inserts when it matches nothing: upsert=True)
update_one_Upsert(s, oid, updates) ==
    IF \E i \in 1..Len(s) : s[i]["_id"] = oid
    THEN [i \in 1..Len(s) |-> IF s[i]["_id"] = oid THEN Merge(s[i], updates) ELSE s[i]]
    ELSE Append(s, Merge([k \in {"_id"} |-> oid], updates))

\* (an update that replaces the document by the fields given)
update_one_Replace(s, oid, updates) ==
    [i \in 1..Len(s) |->
        IF s[i]["_id"] = oid THEN Merge([k \in {"_id"} |-> oid], updates) ELSE s[i]]

\* collection.update_one({"_id": oid}, {"$set": updates}): the collection after
update_one(s, oid, updates) ==
    [i \in 1..Len(s) |-> IF s[i]["_id"] = oid THEN Merge(s[i], updates) ELSE s[i]]

\* result.matched_count of update_one
matched_count(s, oid) == Cardinality(Index(s, oid))

\* (a delete that removes nothing)
delete_one_Nothing(s, oid) == s

\* collection.delete_one({"_id": oid}): the collection after
delete_one(s, oid) == SelectSeq(s, LAMBDA d : d["_id"] # oid)

\* result.deleted_count of delete_one
deleted_count(s, oid) == Cardinality(Index(s, oid))

\* create_document("task", data): the stored document
NewDocument(data, oid, now) ==
    Merge(data, [x \in {"_id", "created_at"} |-> IF x = "_id" THEN oid ELSE DateV(now)])

\* get_documents("task", {}, None): every document, in the store's order
get_documents(s) == s

(* ---------------------------- serialization --------------------------- *)
DateFields == {"created_at", "updated_at", "due_date"}

serialize_task(doc) ==
    LET out == IF "_id" \in DOMAIN doc
               THEN [k \in (DOMAIN doc \ {"_id"}) \cup {"id"} |->
                        IF k = "id" THEN str(doc["_id"]) ELSE doc[k]]
               ELSE doc
    IN [k \in DOMAIN out |->
           IF k \in DateFields /\ hasattr_isoformat(out[k]) THEN isoformat(out[k])
           ELSE out[k]]

\* the sort key of list_tasks: d.get("created_at", datetime.min)
SortKey(d) == IF "created_at" \in DOMAIN d THEN d["created_at"][2] ELSE DatetimeMin

\* x goes before e when sorting with reverse=True
Before(x, e) == SortKey(x) > SortKey(e)

\* one insertion of the stable descending sort: x, met after every element of
\* acc, goes behind the elements whose key is not smaller
RECURSIVE InsertDesc(_, _)
InsertDesc(x, acc) ==
    IF acc = <<>> THEN <<x>>
    ELSE IF Before(x, Head(acc)) THEN <<x>> \o acc
    ELSE <<Head(acc)>> \o InsertDesc(x, Tail(acc))

\* docs.sort(key=SortKey, reverse=True)
RECURSIVE SortFrom(_, _)
SortFrom(docs, acc) ==
    IF docs = <<>> THEN acc ELSE SortFrom(Tail(docs), InsertDesc(Head(docs), acc))

sort(docs) == SortFrom(docs, <<>>)

(* ------------------------------ requests ------------------------------ *)
NoOid == OidV(<<>>)
NoData == [k \in {} |-> NoneV]

\* a request in flight: where it is in its handler, and the handler's locals
\* (read is the completed value a toggle's find_one met, wrote whether its
\* insert or update met a document, calls the store round trips made, since
\* the clock at the toggle's find_one: its reading of the clock, taken
\* between that find_one and its update_one, is not earlier)
Request(pc, op, task_id, oid, data, read, new_val, wrote, calls, since) ==
    [pc |-> pc, op |-> op, task_id |-> task_id, oid |-> oid, data |-> data, read |-> read,
     new_val |-> new_val, wrote |-> wrote, calls |-> calls, since |-> since]

\* the response that left last: the operation, the task_id text it was given
\* and the identifier parsed from it (for create, the one generated), the fields its payload supplied, the completed value a toggle read, the
\* store round trips it made, whether its insert, update or delete met a
\* document, and the answer: status, error, the task (body) or the tasks
\* (items) returned
Response(op, task_id, oid, fields, read, wrote, calls, status, error, body, items) ==
    [op |-> op, task_id |-> task_id, oid |-> oid, fields |-> fields, read |-> read,
     wrote |-> wrote, calls |-> calls,
     status |-> status, error |-> error, body |-> body, items |-> items]

NoLast == Response("none", <<>>, NoOid, {}, NoneV, FALSE, 0, 0, "none", <<>>, <<>>)

\* (payload.model_dump() without exclude_unset: unset fields come as None)
Updates_AllFields(payload) ==
    [k \in {"title", "completed"} |-> IF k \in DOMAIN payload THEN payload[k] ELSE NoneV]

\* payload.model_dump(exclude_unset=True): the fields the client sent
Updates(payload) == payload

\* updates["updated_at"] = datetime.utcnow()
UpdateSet(updates, now) == Merge(updates, [k \in {"updated_at"} |-> DateV(now)])

\* doc.get("completed", False)
GetCompleted(doc) == IF "completed" \in DOMAIN doc THEN doc["completed"] ELSE BoolV(FALSE)

\* (the negation forgotten)
NewVal_NotNegated(doc) == bool(GetCompleted(doc))

\* new_val = not bool(doc.get("completed", False))
NewVal(doc) == ~bool(GetCompleted(doc))

\* {"completed": new_val, "updated_at": datetime.utcnow()}
ToggleSet(new_val, now) ==
    [k \in {"completed", "updated_at"} |-> IF k = "completed" THEN BoolV(new_val) ELSE DateV(now)]

\* (a task created as completed)
CreateData_Completed(payload) ==
    [k \in {"title", "completed"} |-> IF k = "title" THEN payload.title ELSE BoolV(TRUE)]

\* data = {"title": payload.title, "completed": False}
CreateData(payload) ==
    [k \in {"title", "completed"} |-> IF k = "title" THEN payload.title ELSE BoolV(FALSE)]

Init ==
    /\ db \in BOOLEAN
    /\ store = <<>>
    /\ clock = FirstReading
    /\ nins = 0
    /\ deleted = {}
    /\ th = EmptyBag
    /\ last = NoLast

InFlight == BagToSet(th)

\* a request enters its handler and stays in flight after its first round trip
Enter(r) == th' = th (+) SetToBag({r})

\* a request in flight goes on to its next round trip
Move(r, r2) == th' = (th (-) SetToBag({r})) (+) SetToBag({r2})

\* a request in flight answers
Leave(r) == th' = th (-) SetToBag({r})

\* raise HTTPException(...) before any store call
Refuse(op, task_id, fields, status, error) ==
    /\ last' = Response(op, task_id, NoOid, fields, NoneV, FALSE, 0, status, error, <<>>, <<>>)
    /\ UNCHANGED <<db, store, clock, nins, deleted, th>>

\* return serialize_task(doc) of a find_one result: {**None} raises TypeError,
\* which the framework answers with status 500
Serialized(found) == IF found = <<>> THEN <<>> ELSE <<serialize_task(found[1])>>
StatusOf(found, ok) == IF found = <<>> THEN 500 ELSE ok
ErrorOf(found) == IF found = <<>> THEN "TypeError" ELSE "none"

(* GET /tasks, lines 98-105 *)
ListTasks ==
    IF db_is_None
    THEN Refuse("list", <<>>, {}, 500, "StoreUnavailable")
    ELSE /\ last' = Response("list", <<>>, NoOid, {}, NoneV, FALSE, 1, 200, "none", <<>>,
                             LET docs == sort(get_documents(store))
                             IN [i \in 1..Len(docs) |-> serialize_task(docs[i])])
         /\ UNCHANGED <<db, store, clock, nins, deleted, th>>

(* POST /tasks: create_document, lines 110-113 *)
CreateTask(payload, cap) ==
    /\ nins < cap
    /\ IF db_is_None
       THEN Refuse("create", <<>>, {"title"}, 500, "StoreUnavailable")
       ELSE \E now \in clock..MaxClock :
              LET data == CreateData(payload)
                  oid == GenOid(nins)
              IN /\ clock' = now
                 /\ store' = Append(store, NewDocument(data, oid, now))
                 /\ nins' = nins + 1
                 /\ Enter(Request("create_find", "create", <<>>, oid, data, NoneV, FALSE, TRUE, 1, DatetimeMin))
                 /\ UNCHANGED <<db, deleted, last>>

(* POST /tasks: the re-fetch and the answer, lines 114-115 *)
CreateFind(r) ==
    /\ r.pc = "create_find"
    /\ LET new_id == str(r.oid)
           doc == find_one(store, ObjectIdOfStr(new_id))
           out == IF doc # <<>> THEN serialize_task(doc[1])
                  ELSE Merge([k \in {"id"} |-> new_id], r.data)
       IN last' = Response("create", <<>>, r.oid, {"title"}, NoneV, r.wrote, r.calls + 1, 201, "none", <<out>>, <<>>)
    /\ Leave(r)
    /\ UNCHANGED <<db, store, clock, nins, deleted>>

(* PATCH /tasks/{task_id}, lines 120-134.  The handler reads the clock (line  *)
(* 131) before its first store round trip (line 132): the reading may date    *)
(* from any moment since the request arrived, and requests that ran in        *)
(* between may have read the clock later.  since is the earliest reading the  *)
(* request can hold: the clock as it stands for a client that sends one       *)
(* request at a time, the first reading for a request among others.           *)
UpdateTask(task_id, payload, since) ==
    IF db_is_None
    THEN Refuse("update", task_id, DOMAIN payload, 500, "StoreUnavailable")
    ELSE IF ~ObjectIdValid(task_id)
    THEN Refuse("update", task_id, DOMAIN payload, 400, "InvalidIdentifier")
    ELSE LET oid == ObjectId(task_id)
             updates == Updates(payload)
         IN IF DOMAIN updates = {}
            THEN LET doc == find_one(store, oid)
                 IN /\ last' = Response("update", task_id, oid, {}, NoneV, FALSE, 1, StatusOf(doc, 200),
                                        ErrorOf(doc), Serialized(doc), <<>>)
                    /\ UNCHANGED <<db, store, clock, nins, deleted, th>>
            ELSE \E now \in since..MaxClock :
                   LET set == UpdateSet(updates, now)
                   IN /\ clock' = Later(clock, now)
                      /\ store' = update_one(store, oid, set)
                      /\ IF matched_count(store, oid) = 0
                         THEN /\ last' = Response("update", task_id, oid, DOMAIN payload, NoneV, FALSE, 1, 404,
                                                  "NotFound", <<>>, <<>>)
                              /\ th' = th
                         ELSE /\ Enter(Request("update_find", "update", task_id, oid, payload, NoneV, FALSE, TRUE, 1, DatetimeMin))
                              /\ last' = last
                      /\ UNCHANGED <<db, nins, deleted>>

(* PATCH /tasks/{task_id}: the re-fetch and the answer, lines 135-136 *)
UpdateFind(r) ==
    /\ r.pc = "update_find"
    /\ LET doc == find_one(store, r.oid)
       IN last' = Response("update", r.task_id, r.oid, DOMAIN r.data, NoneV, r.wrote, r.calls + 1, StatusOf(doc, 200),
                           ErrorOf(doc), Serialized(doc), <<>>)
    /\ Leave(r)
    /\ UNCHANGED <<db, store, clock, nins, deleted>>

(* PATCH /tasks/{task_id}/toggle, lines 141-151 *)
ToggleTask(task_id) ==
    IF db_is_None
    THEN Refuse("toggle", task_id, {}, 500, "StoreUnavailable")
    ELSE IF ~ObjectIdValid(task_id)
    THEN Refuse("toggle", task_id, {}, 400, "InvalidIdentifier")
    ELSE LET oid == ObjectId(task_id)
             doc == find_one(store, oid)
         IN /\ IF doc = <<>>
               THEN /\ last' = Response("toggle", task_id, oid, {}, NoneV, FALSE, 1, 404, "NotFound", <<>>, <<>>)
                    /\ th' = th
               ELSE /\ Enter(Request("toggle_update", "toggle", task_id, oid, NoData,
                                     GetCompleted(doc[1]), NewVal(doc[1]), FALSE, 1, clock))
                    /\ last' = last
            /\ UNCHANGED <<db, store, clock, nins, deleted>>

(* PATCH /tasks/{task_id}/toggle: the write, line 152 *)
ToggleUpdate(r) ==
    /\ r.pc = "toggle_update"
    /\ \E now \in r.since..MaxClock :
         LET set == ToggleSet(r.new_val, now)
         IN /\ clock' = Later(clock, now)
            /\ store' = update_one(store, r.oid, set)
            /\ Move(r, [r EXCEPT !.pc = "toggle_find", !.calls = r.calls + 1,
                                 !.wrote = matched_count(store, r.oid) # 0,
                                 !.since = DatetimeMin])
    /\ UNCHANGED <<db, nins, deleted, last>>

(* PATCH /tasks/{task_id}/toggle: the re-fetch and the answer, lines 153-154 *)
ToggleFind(r) ==
    /\ r.pc = "toggle_find"
    /\ LET doc == find_one(store, r.oid)
       IN last' = Response("toggle", r.task_id, r.oid, {}, r.read, r.wrote, r.calls + 1, StatusOf(doc, 200),
                           ErrorOf(doc), Serialized(doc), <<>>)
    /\ Leave(r)
    /\ UNCHANGED <<db, store, clock, nins, deleted>>

(* DELETE /tasks/{task_id}, lines 158-169 *)
DeleteTask(task_id) ==
    IF db_is_None
    THEN Refuse("delete", task_id, {}, 500, "StoreUnavailable")
    ELSE IF ~ObjectIdValid(task_id)
    THEN Refuse("delete", task_id, {}, 400, "InvalidIdentifier")
    ELSE LET oid == ObjectId(task_id)
             n == deleted_count(store, oid)
         IN /\ store' = delete_one(store, oid)
            /\ deleted' = IF n = 0 THEN deleted ELSE deleted \cup {oid}
            /\ last' = Response("delete", task_id, oid, {}, NoneV, n # 0, 1, IF n = 0 THEN 404 ELSE 204,
                                IF n = 0 THEN "NotFound" ELSE "none", <<>>, <<>>)
            /\ UNCHANGED <<db, clock, nins, th>>

(* --------------------------- specifications --------------------------- *)
\* a request arrives and runs to its first store round trip
Begin(cap, since) ==
    \/ ListTasks
    \/ \E payload \in TaskCreate : CreateTask(payload, cap)
    \/ \E task_id \in TaskIdStrings, payload \in TaskUpdate : UpdateTask(task_id, payload, since)
    \/ \E task_id \in TaskIdStrings : ToggleTask(task_id)
    \/ \E task_id \in TaskIdStrings : DeleteTask(task_id)

\* a request in flight makes its next store round trip
Continue(r) ==
    \/ CreateFind(r)
    \/ UpdateFind(r)
    \/ ToggleUpdate(r)
    \/ ToggleFind(r)

\* requests on threads, their store round trips interleaved
Next ==
    \/ BagCardinality(th) < NumThreads /\ Begin(ConcTasks, FirstReading)
    \/ \E r \in InFlight : Continue(r)

Spec == Init /\ [][Next]_vars

\* one client, one request at a time: a request begins when none is in flight
SeqNext ==
    \/ th = EmptyBag /\ Begin(MaxTasks, clock)
    \/ \E r \in InFlight : Continue(r)

SeqSpec == Init /\ [][SeqNext]_vars

(* ------------------------------- claims ------------------------------- *)
\* the stored document with identifier oid, when there is one
Doc(s, oid) == find_one(s, oid)[1]
Exists(s, oid) == find_one(s, oid) # <<>>

\* a text that is no well-formed identifier: the wrong length, or a character
\* that is no hex digit
Malformed(task_id) ==
    \/ Len(task_id) # OidLen
    \/ \E i \in 1..Len(task_id) : task_id[i] \notin {"a", "b", "c", "A", "B", "C"}

\* C1: two successive successful toggles of a task, nothing else touching it
\* in between, leave completed as it was before the first, and each toggle
\* sets updated_at to a time not before the task's previous updated_at.
C1_ToggleTwiceRestores ==
    [][/\ \A r \in InFlight :
            (ToggleUpdate(r) /\ Exists(store, r.oid) /\ "updated_at" \in DOMAIN Doc(store, r.oid))
               => Doc(store', r.oid)["updated_at"][2] >= Doc(store, r.oid)["updated_at"][2]
       /\ \A r \in InFlight :
            (ToggleFind(r) /\ last.op = "toggle" /\ last.status = 200 /\ last.oid = r.oid
                /\ last'.status = 200)
               => last'.body[1]["completed"] = last.read]_vars

\* C2: update, toggle and delete of a well-formed identifier that matches no
\* record fail with NotFound (404) and leave the store as it was, whatever
\* the update payload supplies.
C2_MissingIsNotFound ==
    [][\A task_id \in TaskIdStrings :
          (db /\ ~Malformed(task_id) /\ ~Exists(store, ObjectId(task_id)))
             => /\ \A payload \in TaskUpdate :
                     UpdateTask(task_id, payload, FirstReading)
                        => (last'.status = 404 /\ last'.error = "NotFound" /\ store' = store)
                /\ ToggleTask(task_id)
                     => (last'.status = 404 /\ last'.error = "NotFound" /\ store' = store)
                /\ DeleteTask(task_id)
                     => (last'.status = 404 /\ last'.error = "NotFound" /\ store' = store)]_vars

\* C3: an update of an existing task with no fields answers 200 with the
\* task's current record and changes nothing in the store: updated_at is
\* neither set nor advanced, and the clock is not even read.
C3_EmptyUpdateIsNoop ==
    [][\A task_id \in TaskIdStrings :
          (db /\ ~Malformed(task_id) /\ Exists(store, ObjectId(task_id))
              /\ UpdateTask(task_id, NoData, clock))
             => /\ last'.status = 200
                /\ last'.body = <<serialize_task(Doc(store, ObjectId(task_id)))>>
                /\ store' = store
                /\ clock' = clock]_vars

\* an empty update of an existing task has been answered
C3_Witness ==
    /\ last.op = "update" /\ last.fields = {} /\ last.status = 200
    /\ Exists(store, last.oid)

\* C4: a successful update that supplies a non-empty subset of {title,
\* completed} sets exactly the supplied fields and updated_at of that task;
\* every other field of the task (title or completed when omitted, _id,
\* created_at) keeps its stored value.  (The step is the one in which the
\* update's update_one matched and the request r, which carries the payload
\* as r.data, goes on to its re-fetch.)
C4_PartialUpdate ==
    [][\A r \in BagToSet(th') :
          (r.pc = "update_find" /\ th' = th (+) SetToBag({r}))
             => /\ DOMAIN r.data # {}
                /\ Exists(store, r.oid) /\ Exists(store', r.oid)
                /\ LET old == Doc(store, r.oid)
                       new == Doc(store', r.oid)
                   IN /\ DOMAIN new = DOMAIN old \cup DOMAIN r.data \cup {"updated_at"}
                      /\ \A k \in DOMAIN r.data : new[k] = r.data[k]
                      /\ new["updated_at"] = DateV(clock')
                      /\ \A k \in DOMAIN old \ (DOMAIN r.data \cup {"updated_at"}) :
                            new[k] = old[k]]_vars

\* an update that supplied completed alone has been answered: the title stands
C4_Witness ==
    /\ last.op = "update" /\ last.fields = {"completed"} /\ last.status = 200
    /\ last.body[1]["title"] = StrV(<<"X">>)
    /\ last.body[1]["completed"] = BoolV(TRUE)
    /\ "updated_at" \in DOMAIN last.body[1]

\* C5: with the store handle configured, update, toggle and delete of a
\* malformed identifier fail with InvalidIdentifier (400), never NotFound,
\* without a store round trip and with the store as it was, whatever it holds.
\* (The step is one that leaves the response last' for a malformed task_id.)
C5_InvalidIdentifier ==
    [][(/\ db
        /\ last'.op \in {"update", "toggle", "delete"}
        /\ Malformed(last'.task_id)
        /\ (last' # last \/ th' = th))
          => /\ last'.status = 400 /\ last'.error = "InvalidIdentifier"
             /\ last'.calls = 0
             /\ store' = store /\ th' = th]_vars

\* a malformed identifier has been refused while the store holds a task
C5_Witness ==
    /\ last.op \in {"update", "toggle", "delete"}
    /\ Malformed(last.task_id)
    /\ last.status = 400 /\ last.error = "InvalidIdentifier"
    /\ store # <<>>

\* C6: every stored task has a completed field that is a boolean, never null
\* and never absent.
C6_CompletedIsBoolean ==
    \A i \in 1..Len(store) :
       "completed" \in DOMAIN store[i] /\ store[i]["completed"] \in {BoolV(TRUE), BoolV(FALSE)}

\* C7: every request either succeeds with its documented status or fails with
\* exactly one of StoreUnavailable, InvalidIdentifier, NotFound, and none
\* reports success for a mutation that was not applied.
Succeeded(r) ==
    /\ r.error = "none"
    /\ r.status = (CASE r.op = "create" -> 201 [] r.op = "delete" -> 204 [] OTHER -> 200)

Mutation(r) == r.op \in {"create", "toggle", "delete"} \/ (r.op = "update" /\ r.fields # {})

C7_SucceedsOrDocumentedError ==
    last.op # "none"
       => /\ \/ Succeeded(last)
             \/ last.error = "StoreUnavailable" /\ last.status = 500
             \/ last.error = "InvalidIdentifier" /\ last.status = 400
             \/ last.error = "NotFound" /\ last.status = 404
          /\ (Succeeded(last) /\ Mutation(last)) => last.wrote

\* the logical value of a completed field, null read as false
Truth(v) == v = BoolV(TRUE)

\* C8 as claimed: every successful toggle returns completed as the negation of
\* the value it read, under every interleaving.  (Stated for the answers whose
\* completed is a boolean, so that a refutation rests on the interleaving
\* alone and not on a null written by an update.)
C8_ToggleReturnsNegation ==
    (/\ last.op = "toggle" /\ last.status = 200
     /\ last.body[1]["completed"] \in {BoolV(TRUE), BoolV(FALSE)})
       => last.body[1]["completed"] = BoolV(~Truth(last.read))

\* C8 as amended: every toggle's write puts the negation of the value the
\* toggle read (null read as false) into the task, and a successful toggle
\* returns the task as the store holds it at the re-fetch.
C8_ToggleWritesNegationReturnsStored ==
    [][/\ \A r \in InFlight :
            (ToggleUpdate(r) /\ Exists(store, r.oid))
               => Doc(store', r.oid)["completed"] = BoolV(~Truth(r.read))
       /\ \A r \in InFlight :
            (ToggleFind(r) /\ last'.status = 200)
               => /\ last'.body = <<serialize_task(Doc(store, r.oid))>>
                  /\ store' = store]_vars

\* a toggle has answered with the value it wrote
C8_Witness ==
    /\ last.op = "toggle" /\ last.status = 200 /\ last.wrote
    /\ last.body[1]["completed"] = BoolV(~Truth(last.read))

\* the identifiers generated so far
Generated == {GenOid(n) : n \in 0..(nins - 1)}

\* C9: once a delete of an identifier has succeeded the task is gone: it is not
\* in the store, no later list contains it, every later delete of it fails with
\* NotFound; and a delete of an identifier that never existed fails with
\* NotFound every time.
C9_DeletedStaysGone ==
    [][/\ \A oid \in deleted' : ~Exists(store', oid)
       /\ (db /\ last'.op = "list" /\ ListTasks)
             => (\A i \in 1..Len(last'.items) :
                    ObjectIdOfStr(last'.items[i]["id"]) \notin deleted)
       /\ \A task_id \in {last'.task_id} \cap TaskIdStrings :
             (/\ db /\ ~Malformed(task_id)
              /\ (ObjectId(task_id) \in deleted \/ ObjectId(task_id) \notin Generated)
              /\ DeleteTask(task_id))
                => (last'.status = 404 /\ last'.error = "NotFound" /\ store' = store)]_vars

\* a delete of an identifier deleted before has been answered NotFound
C9_Witness ==
    /\ last.op = "delete" /\ last.error = "NotFound"
    /\ last.oid \in deleted

\* C10: list returns every task exactly once, newest first (tasks created one
\* after the other as A, B, C come back as C, B, A), a task without created_at
\* behind every task that has one.
C10_ListNewestFirst ==
    [][(db /\ last'.op = "list" /\ ListTasks)
          => /\ last'.items =
                   [i \in 1..Len(store) |-> serialize_task(store[Len(store) + 1 - i])]
             /\ \A i, j \in 1..Len(last'.items) :
                   ("created_at" \notin DOMAIN last'.items[i]
                       /\ "created_at" \in DOMAIN last'.items[j]) => j < i]_vars

\* the places of a list whose task carries the title t
WithTitle(items, t) ==
    {i \in 1..Len(items) : "title" \in DOMAIN items[i] /\ items[i]["title"] = t}

\* C11: from a store that holds no task with title t, a successful create with
\* title t followed by list yields a list with exactly one task of that title,
\* and that task has completed false, a created_at, and the identifier the
\* create returned.  (The step is the list that follows the create's answer;
\* the store the create started from is the store without the created task.)
C11_CreateThenList ==
    [][(/\ db /\ last.op = "create" /\ last.status = 201
        /\ last'.op = "list" /\ ListTasks
        /\ \A i \in 1..Len(store) :
              store[i]["_id"] # last.oid => store[i]["title"] # last.body[1]["title"])
          => LET hits == WithTitle(last'.items, last.body[1]["title"])
             IN /\ Cardinality(hits) = 1
                /\ \A i \in hits :
                      /\ last'.items[i]["completed"] = BoolV(FALSE)
                      /\ "created_at" \in DOMAIN last'.items[i]
                      /\ last'.items[i]["id"] = last.body[1]["id"]]_vars

\* a list shows the task created last, the only one of its title, beside a
\* task of another title
C11_Witness ==
    /\ last.op = "list" /\ last.status = 200 /\ Len(last.items) = 2
    /\ LET hits == WithTitle(last.items, StrV(<<"X">>))
       IN /\ Cardinality(hits) = 1
          /\ \A i \in hits :
                /\ last.items[i]["id"] = str(GenOid(nins - 1))
                /\ last.items[i]["completed"] = BoolV(FALSE)
                /\ "created_at" \in DOMAIN last.items[i]
                /\ "updated_at" \notin DOMAIN last.items[i]

\* C12: while the store handle is unset, each of list, create, update, toggle
\* and delete fails with StoreUnavailable (500) for every input, malformed
\* identifiers included, makes no store call and changes no state.
C12_StoreUnavailable ==
    [][~db => /\ last'.op \in {"list", "create", "update", "toggle", "delete"}
              /\ last'.status = 500 /\ last'.error = "StoreUnavailable"
              /\ last'.calls = 0
              /\ UNCHANGED <<db, store, clock, nins, deleted, th>>]_vars

\* a request with a malformed identifier has been refused for the unset handle
C12_Witness ==
    /\ ~db
    /\ last.op \in {"update", "toggle", "delete"} /\ Malformed(last.task_id)
    /\ last.status = 500 /\ last.error = "StoreUnavailable" /\ last.calls = 0
    /\ store = <<>>

\* C13: in every state reached through create and update requests, every
\* stored task has a title that is a non-empty text, never the empty string
\* and never null.
C13_TitleNonEmptyText ==
    \A i \in 1..Len(store) :
       /\ "title" \in DOMAIN store[i]
       /\ store[i]["title"][1] = "str"
       /\ store[i]["title"][2] # <<>>

\* the created_at of a document, null when it has none
CreatedAt(d) == IF "created_at" \in DOMAIN d THEN d["created_at"] ELSE NoneV

WriteTo(oid) ==
    \/ \E r \in BagToSet(th') :
          /\ r.pc = "update_find" /\ r.oid = oid /\ DOMAIN r.data # {}
          /\ th' = th (+) SetToBag({r})
    \/ \E r \in InFlight : r.pc = "toggle_update" /\ r.oid = oid /\ ToggleUpdate(r)

\* C15: with a clock that never goes backwards, every task that has an
\* updated_at has created_at <= updated_at, and a task has no updated_at until
\* an update that supplies a field, or a toggle, has been applied to it.
C15_UpdatedAtAfterCreation ==
    [][\A i \in 1..Len(store') :
          "updated_at" \in DOMAIN store'[i]
             => /\ store'[i]["created_at"][2] <= store'[i]["updated_at"][2]
                /\ \/ /\ Exists(store, store'[i]["_id"])
                      /\ "updated_at" \in DOMAIN Doc(store, store'[i]["_id"])
                   \/ WriteTo(store'[i]["_id"])]_vars

\* toggle r is about to write after having read false, while toggle r2 of the
\* same task, which read false too, has written and the task still holds what
\* r2 wrote: both read before either wrote
BothReadFalse(r, r2) ==
    /\ r.pc = "toggle_update" /\ r2.pc = "toggle_find" /\ r2.wrote
    /\ r2.oid = r.oid
    /\ r.read = BoolV(FALSE) /\ r2.read = BoolV(FALSE)
    /\ Exists(store, r.oid)
    /\ Doc(store, r.oid)["completed"] = BoolV(r2.new_val)

\* C16: a lost toggle is reachable: two concurrent toggles of a task with
\* completed false can both read false and both write true; the second write
\* leaves true in the store, where two toggles one after the other would
\* leave false, and each of the two answers 200 with completed true.
C16_LostToggle ==
    [][/\ \A r, r2 \in InFlight :
            (BothReadFalse(r, r2) /\ ToggleUpdate(r))
               => /\ r.new_val /\ r2.new_val
                  /\ Doc(store, r.oid)["completed"] = BoolV(TRUE)
                  /\ Doc(store', r.oid)["completed"] = BoolV(TRUE)
       /\ \A r \in InFlight :
            (/\ r.pc = "toggle_find" /\ r.wrote /\ r.read = BoolV(FALSE)
             /\ Exists(store, r.oid) /\ Doc(store, r.oid)["completed"] = BoolV(r.new_val)
             /\ ToggleFind(r))
               => /\ last'.status = 200 /\ last'.error = "none"
                  /\ last'.body[1]["completed"] = BoolV(TRUE)
                  /\ store' = store]_vars

\* two toggles of one task have both read false; one has written true and the
\* other is about to
C16_Witness ==
    \E r, r2 \in InFlight : BothReadFalse(r, r2) /\ r.new_val /\ r2.new_val

\* the identifiers of the tasks in the store
Ids(s) == {s[i]["_id"] : i \in 1..Len(s)}

\* C17: a deleted task is never recreated: under every interleaving, an update
\* or a toggle whose write runs after a delete has removed the task writes
\* nothing, and the set of identifiers in the store grows only through create.
\* (An identifier new to the store is the one this step's insert generated; a
\* toggle's write that meets no task, and an update of a deleted task, leave
\* the store as it was.)
C17_NoResurrection ==
    [][/\ \A oid \in Ids(store') \ Ids(store) :
            /\ oid = GenOid(nins) /\ nins' = nins + 1
            /\ oid \notin deleted
            /\ \E r \in BagToSet(th') : r.pc = "create_find" /\ r.oid = oid
       /\ deleted' \cap Ids(store') = {}
       /\ \A r \in InFlight :
            (r.pc = "toggle_update" /\ ~Exists(store, r.oid) /\ ToggleUpdate(r))
               => store' = store
       /\ (/\ last'.op = "update" /\ last'.fields # {} /\ last'.calls = 1
           /\ last'.oid \in deleted /\ th' = th)
             => (last'.status = 404 /\ store' = store)]_vars

\* a toggle has answered whose write came after the delete of its task and
\* met nothing
C17_Witness ==
    /\ last.op = "toggle" /\ last.calls = 3 /\ ~last.wrote
    /\ last.oid \in deleted
    /\ ~Exists(store, last.oid)

\* the step was taken by a request that is about the task oid: a request that
\* answers in this step, or one that goes on in flight
About(oid) ==
    \/ /\ BagCardinality(th') <= BagCardinality(th)
       /\ last'.op \in {"update", "toggle", "delete"} /\ last'.oid = oid
    \/ \E r \in BagToSet(th') :
          /\ CopiesIn(r, th') > CopiesIn(r, th)
          /\ r.op \in {"update", "toggle"} /\ r.oid = oid

\* a request answers in this step (in one step, or leaving the requests in
\* flight); last' is its answer
Answers ==
    \/ th' = th
    \/ BagCardinality(th') < BagCardinality(th)

\* C18: update, toggle and delete of identifier i leave every task with
\* another identifier unchanged (same fields, same values, still present),
\* and list and every failing request leave the whole store unchanged: a
\* request that fails has changed nothing, in this step or in an earlier one.
C18_FrameEffect ==
    [][/\ \A i \in 1..Len(store) :
            (\A j \in 1..Len(store') : store'[j] # store[i]) => About(store[i]["_id"])
       /\ (Answers /\ last'.op = "list") => store' = store
       /\ (Answers /\ last'.op # "none" /\ last'.status >= 400)
             => (store' = store /\ ~last'.wrote)]_vars

====
